---- MODULE Spec2Model ----
(***************************************************************************)
(* Model of validate_api.py: the environment check, the sequential check   *)
(* runner of main(), the four endpoint checks and the summary.             *)
(*                                                                         *)
(* The server is the environment.  A response is abstracted to the parts   *)
(* the checks inspect: the status code, the shape of the JSON body (with   *)
(* the JSON kind of every value the code tests for truthiness, membership  *)
(* or length), and for /api/enrich the sequence of body lines together     *)
(* with whether the server ever finishes the body.                         *)
(***************************************************************************)
EXTENDS Integers, Sequences, FiniteSets, TLC

VARIABLES FIRECRAWL_API_KEY, OPENAI_API_KEY, pc, idx, results, requests,
          response, printed, exitCode

vars == <<FIRECRAWL_API_KEY, OPENAI_API_KEY, pc, idx, results, requests,
          response, printed, exitCode>>

\* Longest response body, in lines, the model's /api/enrich server sends.
MaxLines == 6

\* ---------------------------------------------------------------------
\* Values

\* os.getenv gives None when the variable is unset, else its string.
EnvValues == {"None", "", "fc-key"}

\* JSON kinds of a value looked up in an object; "absent" = key not there
\* (dict.get then gives None).
JVals == {"absent", "null", "true", "false", "zero", "one", "str"}

\* Python truthiness of a looked-up JSON value.
Truthy(v) == v \in {"true", "one", "str"}

\* JSON kinds of the value under an expected key ("fields" / "content").
KeyVals == {"absent", "null", "num", "list", "emptylist", "str"}

\* len(v) is defined for lists and strings, raises TypeError for None/numbers.
HasLen(v) == v \in {"list", "emptylist", "str"}

\* JSON kinds of the "data" value; "str_key" is a string that contains the
\* expected key as a substring, "list_key" a list with the key as element.
DataVals == {"absent", "null", "num", "str_key", "str_nokey", "list_key", "object"}

\* Kinds of a body line of the /api/enrich stream:
\* data = b'data: ...' (valid UTF-8), blank = b'', other = valid UTF-8
\* without the prefix, bad_utf8 = b'\xff\xfe' (not decodable as UTF-8).
LineKinds == {"data", "blank", "other", "bad_utf8"}

ErrorStatuses == {404, 429, 500}

NoResponse ==
  [status |-> 0, top |-> "none", envStatus |-> "absent", fk |-> "absent",
   ok |-> "absent", success |-> "absent", data |-> "absent",
   keyVal |-> "absent", lines |-> <<>>, finished |-> TRUE]

Base(s, t) == [NoResponse EXCEPT !.status = s, !.top = t]

SeqsUpTo(n) == UNION {[1..k -> LineKinds] : k \in 0..n}

\* requests raises (connection refused, reset, timeout ...).
TransportError == Base(0, "transport_error")

\* A 200 body that is not JSON, or JSON that is not an object.
BadJson == {Base(200, "undecodable"), Base(200, "nonobject")}

CheckEnvResponses ==
  {TransportError} \cup {Base(s, "text") : s \in ErrorStatuses} \cup BadJson
  \cup {[Base(200, "object") EXCEPT !.envStatus = e] : e \in {"absent", "null", "str"}}
  \cup {[Base(200, "object") EXCEPT !.envStatus = "object", !.fk = a, !.ok = b] :
          a \in JVals, b \in JVals}

SuccessDataResponses ==
  {TransportError} \cup {Base(s, "text") : s \in ErrorStatuses} \cup BadJson
  \cup {[Base(200, "object") EXCEPT !.success = s, !.data = d] :
          s \in JVals, d \in DataVals \ {"object"}}
  \cup {[Base(200, "object") EXCEPT !.success = s, !.data = "object", !.keyVal = k] :
          s \in JVals, k \in KeyVals}

EnrichResponses ==
  {TransportError}
  \cup {[Base(s, "stream") EXCEPT !.finished = f] : s \in ErrorStatuses, f \in BOOLEAN}
  \cup {[Base(200, "stream") EXCEPT !.lines = l, !.finished = f] :
          l \in SeqsUpTo(MaxLines), f \in BOOLEAN}

Responses(t) ==
  CASE t = "check_env" -> CheckEnvResponses
    [] t = "generate_fields" -> SuccessDataResponses
    [] t = "scrape" -> SuccessDataResponses
    [] t = "enrich" -> EnrichResponses

\* ---------------------------------------------------------------------
\* check_environment

check_environment_skip_openai(fk, ok) == ~(fk \in {"None", ""})

check_environment(fk, ok) ==
  IF fk \in {"None", ""} THEN FALSE
  ELSE IF ok \in {"None", ""} THEN FALSE
  ELSE TRUE

\* ---------------------------------------------------------------------
\* The four checks.  X_try is the body of the try block: "True"/"False"
\* for a return, "raise" for an exception; test_X adds the except clause.

check_env_try_or(r) ==
  IF r.top = "transport_error" THEN "raise"
  ELSE IF r.status = 200 THEN
    IF r.top \in {"undecodable", "nonobject"} THEN "raise"
    ELSE IF r.envStatus \in {"null", "str"} THEN "raise"
    ELSE IF r.envStatus = "absent" THEN "False"
    ELSE IF Truthy(r.fk) \/ Truthy(r.ok) THEN "True" ELSE "False"
  ELSE "False"

check_env_try(r) ==
  IF r.top = "transport_error" THEN "raise"
  ELSE IF r.status = 200 THEN
    IF r.top \in {"undecodable", "nonobject"} THEN "raise"
    ELSE IF r.envStatus \in {"null", "str"} THEN "raise"
    ELSE IF r.envStatus = "absent" THEN "False"
    ELSE IF Truthy(r.fk) /\ Truthy(r.ok) THEN "True" ELSE "False"
  ELSE "False"

test_check_env_endpoint(r) ==
  LET b == check_env_try(r) IN IF b = "raise" THEN FALSE ELSE b = "True"

\* `key in result.get("data", {})`: "raise" when data has no membership test.
KeyInData(r) ==
  CASE r.data = "absent" -> "False"
    [] r.data \in {"null", "num"} -> "raise"
    [] r.data \in {"str_key", "list_key"} -> "True"
    [] r.data = "str_nokey" -> "False"
    [] r.data = "object" -> IF r.keyVal = "absent" THEN "False" ELSE "True"

generate_fields_try_non200_passes(r) ==
  IF r.top = "transport_error" THEN "raise"
  ELSE IF r.status = 200 THEN
    IF r.top \in {"undecodable", "nonobject"} THEN "raise"
    ELSE IF ~Truthy(r.success) THEN "False"
    ELSE IF KeyInData(r) = "raise" THEN "raise"
    ELSE IF KeyInData(r) = "False" THEN "False"
    ELSE IF r.data # "object" THEN "raise"
    ELSE IF ~HasLen(r.keyVal) THEN "raise"
    ELSE "True"
  ELSE "True"

generate_fields_try(r) ==
  IF r.top = "transport_error" THEN "raise"
  ELSE IF r.status = 200 THEN
    IF r.top \in {"undecodable", "nonobject"} THEN "raise"
    ELSE IF ~Truthy(r.success) THEN "False"
    ELSE IF KeyInData(r) = "raise" THEN "raise"
    ELSE IF KeyInData(r) = "False" THEN "False"
    ELSE IF r.data # "object" THEN "raise"
    ELSE IF ~HasLen(r.keyVal) THEN "raise"
    ELSE "True"
  ELSE "False"

test_generate_fields(r) ==
  LET b == generate_fields_try(r) IN IF b = "raise" THEN FALSE ELSE b = "True"

scrape_try_429_fails(r) ==
  IF r.top = "transport_error" THEN "raise"
  ELSE IF r.status = 200 THEN
    IF r.top \in {"undecodable", "nonobject"} THEN "raise"
    ELSE IF ~Truthy(r.success) THEN "False"
    ELSE KeyInData(r)
  ELSE "False"

scrape_try(r) ==
  IF r.top = "transport_error" THEN "raise"
  ELSE IF r.status = 200 THEN
    IF r.top \in {"undecodable", "nonobject"} THEN "raise"
    ELSE IF ~Truthy(r.success) THEN "False"
    ELSE KeyInData(r)
  ELSE IF r.status = 429 THEN "True"
  ELSE "False"

test_scrape_endpoint(r) ==
  LET b == scrape_try(r) IN IF b = "raise" THEN FALSE ELSE b = "True"

\* The loop over enumerate(response.iter_lines()), from 1-based position i
\* with the decoded lines collected so far.
RECURSIVE ReadLines(_, _, _, _)
ReadLines(ls, i, acc, limit) ==
  IF i > Len(ls) THEN [raised |-> FALSE, lines |-> acc]
  ELSE IF i - 1 >= limit THEN [raised |-> FALSE, lines |-> acc]
  ELSE IF ls[i] = "blank" THEN ReadLines(ls, i + 1, acc, limit)
  ELSE IF ls[i] = "bad_utf8" THEN [raised |-> TRUE, lines |-> acc]
  ELSE ReadLines(ls, i + 1, Append(acc, ls[i]), limit)

enrich_try_reads_six(r) ==
  IF r.top = "transport_error" THEN "raise"
  ELSE IF r.status = 200 THEN
    LET rd == ReadLines(r.lines, 1, <<>>, 6)
        valid_events == {j \in 1..Len(rd.lines) : rd.lines[j] = "data"}
    IN IF rd.raised THEN "raise"
       ELSE IF Cardinality(valid_events) > 0 THEN "True" ELSE "False"
  ELSE "False"

enrich_try(r) ==
  IF r.top = "transport_error" THEN "raise"
  ELSE IF r.status = 200 THEN
    LET rd == ReadLines(r.lines, 1, <<>>, 5)
        valid_events == {j \in 1..Len(rd.lines) : rd.lines[j] = "data"}
    IN IF rd.raised THEN "raise"
       ELSE IF Cardinality(valid_events) > 0 THEN "True" ELSE "False"
  ELSE "False"

test_enrich_endpoint(r) ==
  LET b == enrich_try(r) IN IF b = "raise" THEN FALSE ELSE b = "True"

\* ---------------------------------------------------------------------
\* main

tests == <<"check_env", "generate_fields", "scrape", "enrich">>

request_of_all_post(t) ==
  CASE t = "check_env" -> [method |-> "POST", path |-> "/api/check-env"]
    [] t = "generate_fields" -> [method |-> "POST", path |-> "/api/generate-fields"]
    [] t = "scrape" -> [method |-> "POST", path |-> "/api/scrape"]
    [] t = "enrich" -> [method |-> "POST", path |-> "/api/enrich"]

\* The one request a check issues.
request_of(t) ==
  CASE t = "check_env" -> [method |-> "GET", path |-> "/api/check-env"]
    [] t = "generate_fields" -> [method |-> "POST", path |-> "/api/generate-fields"]
    [] t = "scrape" -> [method |-> "POST", path |-> "/api/scrape"]
    [] t = "enrich" -> [method |-> "POST", path |-> "/api/enrich"]

\* requests.get / requests.post are called without stream=True: the call
\* returns (or raises) only once the whole body has been received.
call_returns(r) == r.finished

run_test(t, r) ==
  CASE t = "check_env" -> test_check_env_endpoint(r)
    [] t = "generate_fields" -> test_generate_fields(r)
    [] t = "scrape" -> test_scrape_endpoint(r)
    [] t = "enrich" -> test_enrich_endpoint(r)

next_test_stop_on_failure(i, result) == IF result THEN i + 1 ELSE Len(tests) + 1

\* `for test in tests`: the loop moves on whatever the result was.
next_test(i, result) == i + 1

RECURSIVE sum(_)
sum(rs) == IF rs = <<>> THEN 0 ELSE (IF Head(rs) THEN 1 ELSE 0) + sum(Tail(rs))

summary_code_any_pass(passed, total) == IF passed > 0 THEN 0 ELSE 1

summary_code(passed, total) == IF passed = total THEN 0 ELSE 1

Init ==
  /\ FIRECRAWL_API_KEY \in EnvValues
  /\ OPENAI_API_KEY \in EnvValues
  /\ pc = "start"
  /\ idx = 0
  /\ results = <<>>
  /\ requests = <<>>
  /\ response = NoResponse
  /\ printed = [passed |-> -1, total |-> -1]
  /\ exitCode = -1

\* main: `if not check_environment(): sys.exit(1)`
EnvironmentMissing ==
  /\ pc = "start"
  /\ ~check_environment(FIRECRAWL_API_KEY, OPENAI_API_KEY)
  /\ pc' = "exited"
  /\ exitCode' = 1
  /\ UNCHANGED <<FIRECRAWL_API_KEY, OPENAI_API_KEY, idx, results, requests,
                 response, printed>>

\* main: environment verified, `results = []`, the loop starts.
EnvironmentVerified ==
  /\ pc = "start"
  /\ check_environment(FIRECRAWL_API_KEY, OPENAI_API_KEY)
  /\ pc' = "loop"
  /\ idx' = 1
  /\ results' = <<>>
  /\ UNCHANGED <<FIRECRAWL_API_KEY, OPENAI_API_KEY, requests, response,
                 printed, exitCode>>

\* test(): the check sends its request and blocks in requests.get/post;
\* its local `response` is not bound yet.
SendRequest ==
  /\ pc = "loop"
  /\ idx <= Len(tests)
  /\ requests' = Append(requests, request_of(tests[idx]))
  /\ response' = NoResponse
  /\ pc' = "in_request"
  /\ UNCHANGED <<FIRECRAWL_API_KEY, OPENAI_API_KEY, idx, results, printed,
                 exitCode>>

\* The server answers (or the transport fails).
ServerResponds ==
  /\ pc = "in_request"
  /\ \E r \in Responses(tests[idx]) : response' = r
  /\ pc' = "reading_body"
  /\ UNCHANGED <<FIRECRAWL_API_KEY, OPENAI_API_KEY, idx, results, requests,
                 printed, exitCode>>

\* The call returns, the check classifies the response, main appends the
\* result, sleeps and goes to the next test.
TestReturns ==
  /\ pc = "reading_body"
  /\ call_returns(response)
  /\ LET result == run_test(tests[idx], response) IN
       /\ results' = Append(results, result)
       /\ idx' = next_test(idx, result)
  /\ pc' = "loop"
  /\ UNCHANGED <<FIRECRAWL_API_KEY, OPENAI_API_KEY, requests, response,
                 printed, exitCode>>

\* main: the summary and `sys.exit(main())`.
Summary ==
  /\ pc = "loop"
  /\ idx > Len(tests)
  /\ LET passed == sum(results)
         total == Len(results) IN
       /\ printed' = [passed |-> passed, total |-> total]
       /\ exitCode' = summary_code(passed, total)
  /\ pc' = "exited"
  /\ UNCHANGED <<FIRECRAWL_API_KEY, OPENAI_API_KEY, idx, results, requests,
                 response>>

Next ==
  \/ EnvironmentMissing
  \/ EnvironmentVerified
  \/ SendRequest
  \/ ServerResponds
  \/ TestReturns
  \/ Summary

Spec == Init /\ [][Next]_vars

\* ---------------------------------------------------------------------
\* Properties

KeysPresent ==
  /\ FIRECRAWL_API_KEY \notin {"None", ""}
  /\ OPENAI_API_KEY \notin {"None", ""}

\* A check has returned and its result is the last element of results;
\* response is still the response that check received.
Recorded == pc \in {"loop", "exited"} /\ results # <<>>

LastCheck == tests[Len(results)]

LastResult == results[Len(results)]

FourRequests ==
  << [method |-> "GET", path |-> "/api/check-env"],
     [method |-> "POST", path |-> "/api/generate-fields"],
     [method |-> "POST", path |-> "/api/scrape"],
     [method |-> "POST", path |-> "/api/enrich"] >>

FirstFive(ls) == SubSeq(ls, 1, IF Len(ls) < 5 THEN Len(ls) ELSE 5)

HasLine(ls, k) == \E i \in 1..Len(ls) : ls[i] = k

\* C1: with a credential missing or empty the run ends with exit code 1 and
\* issues no request; no request is issued before the environment check
\* has succeeded.
C1_NoRequestBeforeEnvironmentCheck ==
  /\ requests # <<>> => (KeysPresent /\ pc # "start")
  /\ (~KeysPresent /\ pc # "start") =>
        (pc = "exited" /\ exitCode = 1 /\ requests = <<>> /\ results = <<>>)

C1_Witness ==
  /\ pc = "exited" /\ exitCode = 1 /\ requests = <<>>
  /\ FIRECRAWL_API_KEY = "fc-key" /\ OPENAI_API_KEY = ""

\* C2: after a successful environment check the exit code is 0 iff all four
\* checks were recorded as passed, else 1, and the tally printed is
\* (number of passed checks)/4.
C2_ExitCodeIffAllPassed ==
  (pc = "exited" /\ KeysPresent) =>
     /\ printed.total = 4
     /\ printed.passed = Cardinality({i \in 1..Len(results) : results[i]})
     /\ exitCode \in {0, 1}
     /\ exitCode = 0 <=> (Len(results) = 4 /\ \A i \in 1..4 : results[i])

C2_Witness ==
  /\ pc = "exited" /\ exitCode = 0
  /\ printed = [passed |-> 4, total |-> 4]

\* C3: the checks run in the fixed order check-env, generate-fields, scrape,
\* enrich; a failed check never aborts the rest (after a recorded result
\* the loop is at the next check), and the run reaches its summary only
\* with one boolean per check.
C3_AllChecksRunInOrder ==
  /\ Len(requests) <= 4
  /\ \A i \in 1..Len(requests) : requests[i].path = FourRequests[i].path
  /\ \A i \in 1..Len(results) : results[i] \in BOOLEAN
  /\ pc = "loop" => (idx = Len(results) + 1 /\ Len(requests) = Len(results))
  /\ pc \in {"in_request", "reading_body"} =>
        (idx = Len(results) + 1 /\ Len(requests) = idx)
  /\ (pc = "exited" /\ KeysPresent) => (Len(results) = 4 /\ Len(requests) = 4)

C3_Witness ==
  /\ pc = "exited"
  /\ results = <<FALSE, FALSE, FALSE, TRUE>>
  /\ Len(requests) = 4

\* C4: a 429 response is recorded as a pass by the scrape check and as a
\* failure by the three other checks.
C4_RateLimitPassesOnlyForScrape ==
  (Recorded /\ response.status = 429) => (LastResult <=> LastCheck = "scrape")

C4_Witness ==
  /\ Recorded /\ response.status = 429
  /\ Len(results) = 3 /\ results[3] = TRUE

\* C5: a status other than 200 (and other than 429 for scrape), a transport
\* error or a body that cannot be decoded is recorded as a failure of that
\* check, and the run goes on to the next check or to the summary.
C5_ErrorsAreRecordedAsFailures ==
  (/\ Recorded
   /\ \/ response.top = "transport_error"
      \/ (response.status # 200 /\ ~(LastCheck = "scrape" /\ response.status = 429))
      \/ (response.status = 200 /\ response.top = "undecodable")
      \/ (response.status = 200 /\ HasLine(FirstFive(response.lines), "bad_utf8")))
  => /\ LastResult = FALSE
     /\ \/ pc = "loop" /\ idx = Len(results) + 1
        \/ pc = "exited" /\ Len(results) = 4 /\ exitCode = 1

C5_Witness ==
  /\ Recorded /\ Len(results) = 2
  /\ response.status = 500 /\ results[2] = FALSE
  /\ pc = "loop" /\ idx = 3

\* C6 as claimed: on a 200 response the enrich result is a pass iff one of
\* the first five body lines starts with "data: ".
C6_PassIffDataLineInFirstFive ==
  (Recorded /\ LastCheck = "enrich" /\ response.status = 200) =>
     (LastResult <=> HasLine(FirstFive(response.lines), "data"))

\* C6 as amended: ... iff one of the first five body lines starts with
\* "data: " and none of the first five lines fails UTF-8 decoding.
C6_PassIffDataLineAndDecodable ==
  (Recorded /\ LastCheck = "enrich" /\ response.status = 200) =>
     (LastResult <=> (/\ HasLine(FirstFive(response.lines), "data")
                      /\ ~HasLine(FirstFive(response.lines), "bad_utf8")))

C6_Witness ==
  /\ Recorded /\ LastCheck = "enrich" /\ response.status = 200
  /\ Len(response.lines) = 6 /\ response.lines[6] = "data"
  /\ response.lines[1] = "blank"
  /\ ~HasLine(FirstFive(response.lines), "data")
  /\ LastResult = FALSE

\* C7: once the enrich check has the response headers and more than five
\* body lines it can produce its result, also when the server never
\* finishes the body.
C7_EnrichReturnsWithoutEndOfStream ==
  (/\ pc = "reading_body" /\ tests[idx] = "enrich"
   /\ response.status = 200 /\ Len(response.lines) > 5)
  => ENABLED TestReturns

\* C8 as claimed: on a 200 response the check-env result is a pass iff
\* environmentStatus reports both keys as true.
C8_PassIffBothFlagsTrue ==
  (Recorded /\ LastCheck = "check_env" /\ response.status = 200) =>
     (LastResult <=> (/\ response.top = "object"
                      /\ response.envStatus = "object"
                      /\ response.fk = "true" /\ response.ok = "true"))

\* C8 as amended: ... iff environmentStatus is an object whose values for
\* both keys are truthy (true, a non-zero number, a non-empty string).
C8_PassIffBothFlagsTruthy ==
  (Recorded /\ LastCheck = "check_env" /\ response.status = 200) =>
     (LastResult <=> (/\ response.top = "object"
                      /\ response.envStatus = "object"
                      /\ response.fk \in {"true", "one", "str"}
                      /\ response.ok \in {"true", "one", "str"}))

C8_Witness ==
  /\ Recorded /\ LastCheck = "check_env" /\ response.status = 200
  /\ response.fk = "true" /\ response.ok = "true" /\ LastResult = TRUE

\* C9: on a 200 response the generate-fields and scrape results are a pass
\* exactly when the body has a true "success" flag and a "data" object
\* that contains the expected key.
C9_PassIffSuccessAndKeyInData ==
  (Recorded /\ LastCheck \in {"generate_fields", "scrape"} /\ response.status = 200) =>
     (LastResult <=> (/\ response.top = "object"
                      /\ response.success = "true"
                      /\ response.data = "object"
                      /\ response.keyVal # "absent"))

\* C10: every check issues exactly one request, to its own endpoint, so a
\* complete run issues the four requests once each, and a recorded result
\* is never changed (results only grows at its end).
C10_OneRequestPerCheckNoRetry ==
  /\ [](/\ Len(requests) <= 4
        /\ requests = SubSeq(FourRequests, 1, Len(requests))
        /\ pc \in {"in_request", "reading_body"} => Len(requests) = Len(results) + 1
        /\ pc = "loop" => Len(requests) = Len(results)
        /\ (pc = "exited" /\ KeysPresent) => requests = FourRequests)
  /\ [][\/ results' = results
        \/ \E b \in BOOLEAN : results' = Append(results, b)]_vars

C10_Witness ==
  /\ pc = "exited" /\ requests = FourRequests
  /\ Len(results) = 4 /\ results[2] = FALSE /\ results[3] = TRUE
====
